---- MODULE Spec2Model ----
(***************************************************************************)
(* A model of backend/app.py, the Flask request handlers of MealMatch.     *)
(*                                                                         *)
(* The persistent store (MySQL behind mysql.connector, autocommit off) is  *)
(* the committed tables users, restaurants, menu_items, orders and         *)
(* order_items.  A handler works on its own connection: what it has        *)
(* executed but not committed lives in its local state and is dropped when *)
(* the connection is closed without a commit.                              *)
(*                                                                         *)
(* Text values are sequences of one-character strings, so that strip() and *)
(* lower() and LIKE are computed rather than assumed.                      *)
(***************************************************************************)
EXTENDS Integers, Sequences, FiniteSets, TLC

\* ------------------------------------------------------------- bounds
MaxUsers == 2
MaxRestaurants == 1
MaxClock == 1
MaxUploads == 2
MaxFaults == 1
MaxOrders == 1
MaxLines == 2
MaxRows == 2

\* ------------------------------------------------------------- text
None == <<"None">>

Clients == {"c1", "c2"}

\* str.strip(): leading and trailing blanks removed
RECURSIVE LStrip(_)
LStrip(s) == IF s # <<>> /\ Head(s) = " " THEN LStrip(Tail(s)) ELSE s

RECURSIVE RStrip(_)
RStrip(s) ==
    IF s # <<>> /\ s[Len(s)] = " " THEN RStrip(SubSeq(s, 1, Len(s) - 1)) ELSE s

Strip(s) == RStrip(LStrip(s))

LowerChar(ch) ==
    CASE ch = "A" -> "a"
      [] ch = "B" -> "b"
      [] OTHER -> ch

\* str.lower()
Lower(s) == [i \in 1..Len(s) |-> LowerChar(s[i])]

\* generate_password_hash / check_password_hash: a one-way image of the password
generate_password_hash(password) == <<"hash", password>>

check_password_hash(h, password) == h = <<"hash", password>>

\* ------------------------------------------------------------- state
VARIABLES
    clock,        \* int(datetime.utcnow().timestamp())
    files,        \* UPLOAD_DIR: stored name -> number of times it was written
    uploads,      \* number of photo uploads so far
    users,        \* table users, row i has id i
    session,      \* per client: session['uid'], 0 when absent
    restaurants,  \* table restaurants
    menu_items,   \* table menu_items: id -> price
    orders,       \* table orders (committed rows)
    order_items,  \* table order_items (committed rows)
    next_order_id,\* AUTO_INCREMENT of orders
    requested,    \* per order id: the lines of the request that inserted it
    pc,           \* per client: where its request is
    local,        \* per client: the locals of its handler
    open_conns,   \* connections returned by get_db() and not closed
    faults,       \* storage errors raised so far
    response,     \* the last response sent
    listing       \* the last result of list_restaurants, with its arguments

vars == <<clock, files, uploads, users, session, restaurants, menu_items, orders,
          order_items, next_order_id, requested, pc, local, open_conns, faults,
          response, listing>>

NoLocal == [k |-> "none"]

NoResponse ==
    [to |-> "nobody", handler |-> "none", status |-> 0, error |-> "none", body |-> None]

\* a response: who asked, which handler answered, the HTTP status, the exception
\* behind a 500 and the JSON body (where a property needs it)
Reply(c, h, st, body) ==
    [to |-> c, handler |-> h, status |-> st, error |-> "none", body |-> body]

Respond(c, h, st) == Reply(c, h, st, None)

\* an exception leaves the handler: Flask answers 500
Raise(c, h, exc) ==
    [to |-> c, handler |-> h, status |-> 500, error |-> exc, body |-> None]

\* a storage call (get_db, cursor, execute, commit) may raise
MayFail == faults < MaxFaults

\* ------------------------------------------------------------- uploads
Filenames == {<<>>, <<"a">>}

NoFile == [present |-> FALSE, filename |-> <<>>]

Photos == {NoFile} \cup {[present |-> TRUE, filename |-> f] : f \in Filenames}

\* f"{int(datetime.utcnow().timestamp())}_{photo.filename}"
safe_name(ts, filename) == <<ts, "_">> \o filename

HasPhoto(photo) == photo.present /\ photo.filename # <<>>

\* f"/uploads/{safe_name}" when a photo was sent, else None
photo_url_of(photo, ts) ==
    IF HasPhoto(photo) THEN <<"/uploads/">> \o safe_name(ts, photo.filename) ELSE None

\* photo.save(save_path): writes, or overwrites, the file of that name
photo_save(fs, photo, ts) ==
    IF HasPhoto(photo)
    THEN LET n == safe_name(ts, photo.filename)
         IN  [x \in DOMAIN fs \cup {n} |->
                 IF x = n THEN (IF n \in DOMAIN fs THEN fs[n] + 1 ELSE 1) ELSE fs[x]]
    ELSE fs

CanUpload(photo) == HasPhoto(photo) => uploads < MaxUploads

Uploaded(photo) == IF HasPhoto(photo) THEN uploads + 1 ELSE uploads

\* the clock of the host advances between, and during, requests
Tick ==
    /\ clock < MaxClock
    /\ clock' = clock + 1
    /\ UNCHANGED <<files, uploads, users, session, restaurants, menu_items, orders,
                   order_items, next_order_id, requested, pc, local, open_conns,
                   faults, response, listing>>

order_vars == <<menu_items, orders, order_items, next_order_id, requested>>

upload_vars == <<clock, files, uploads>>

request_vars == <<pc, local>>

\* ------------------------------------------------------------- register
\* SELECT id FROM users WHERE email=%s
UsersByEmail(email) == {i \in 1..Len(users) : users[i].email = email}

\* line 54
register_valid(name, email, password, role) ==
    ~(name = <<>> \/ email = <<>> \/ password = <<>> \/ role \notin {"customer", "owner"})

\* lines 48-65: read and check the form, save the photo, open the connection
register_begin(c, name_in, email_in, password, role, photo) ==
    LET name == Strip(name_in)
        email == Lower(Strip(email_in))
    IN  /\ pc[c] = "idle"
        /\ \/ /\ ~register_valid(name, email, password, role)
              /\ response' = Respond(c, "register", 400)
              /\ UNCHANGED <<files, uploads, pc, local, open_conns, faults>>
           \/ /\ register_valid(name, email, password, role)
              /\ CanUpload(photo)
              /\ files' = photo_save(files, photo, clock)
              /\ uploads' = Uploaded(photo)
              /\ \/ \* get_db() raises
                    /\ MayFail
                    /\ faults' = faults + 1
                    /\ response' = Raise(c, "register", "DatabaseError")
                    /\ UNCHANGED <<pc, local, open_conns>>
                 \/ \* db.cursor() raises, outside the try: db is never closed
                    /\ MayFail
                    /\ faults' = faults + 1
                    /\ open_conns' = open_conns + 1
                    /\ response' = Raise(c, "register", "DatabaseError")
                    /\ UNCHANGED <<pc, local>>
                 \/ /\ open_conns' = open_conns + 1
                    /\ pc' = [pc EXCEPT ![c] = "register_select"]
                    /\ local' = [local EXCEPT ![c] =
                           [k |-> "register", name |-> name, email |-> email,
                            password |-> password, role |-> role,
                            photo_url |-> photo_url_of(photo, clock)]]
                    /\ UNCHANGED <<faults, response>>
        /\ UNCHANGED <<clock, users, session, restaurants, order_vars, listing>>

\* lines 67-69 with the finally of line 80: the statement raises, or the email is taken
register_select(c) ==
    /\ pc[c] = "register_select"
    /\ \/ /\ MayFail
          /\ faults' = faults + 1
          /\ response' = Raise(c, "register", "DatabaseError")
       \/ /\ UsersByEmail(local[c].email) # {}
          /\ response' = Respond(c, "register", 409)
          /\ UNCHANGED faults
    /\ pc' = [pc EXCEPT ![c] = "idle"]
    /\ local' = [local EXCEPT ![c] = NoLocal]
    /\ open_conns' = open_conns - 1
    /\ UNCHANGED <<upload_vars, users, session, restaurants, order_vars, listing>>

\* lines 67-68: no row has the email
register_select_free(c) ==
    /\ pc[c] = "register_select"
    /\ UsersByEmail(local[c].email) = {}
    /\ pc' = [pc EXCEPT ![c] = "register_insert"]
    /\ UNCHANGED <<upload_vars, users, session, restaurants, order_vars, local,
                   open_conns, faults, response, listing>>

\* the row of lines 71-74
NewUser(l) ==
    [name |-> l.name, email |-> l.email,
     password_hash |-> generate_password_hash(l.password),
     role |-> l.role, photo_url |-> l.photo_url]

\* lines 71-78 with the finally of line 80.  The handler does not look at the table
\* again: when another request has inserted the email since the SELECT, the INSERT
\* adds a second row, or, where the table has a unique index on email, raises
register_insert(c) ==
    /\ pc[c] = "register_insert"
    /\ \/ /\ MayFail
          /\ faults' = faults + 1
          /\ response' = Raise(c, "register", "DatabaseError")
          /\ UNCHANGED <<users, session>>
       \/ /\ UsersByEmail(local[c].email) # {}
          /\ response' = Raise(c, "register", "IntegrityError")
          /\ UNCHANGED <<users, session, faults>>
       \/ /\ Len(users) < MaxUsers
          /\ users' = Append(users, NewUser(local[c]))
          /\ session' = [session EXCEPT ![c] = Len(users) + 1]
          /\ response' = Respond(c, "register", 200)
          /\ UNCHANGED faults
    /\ pc' = [pc EXCEPT ![c] = "idle"]
    /\ local' = [local EXCEPT ![c] = NoLocal]
    /\ open_conns' = open_conns - 1
    /\ UNCHANGED <<upload_vars, restaurants, order_vars, listing>>

register_step(c) ==
    \/ register_select(c)
    \/ register_select_free(c)
    \/ register_insert(c)

\* ------------------------------------------------------------- login, logout
\* data.get(key) or ''
OrEmpty(x) == IF x = None THEN <<>> ELSE x

\* lines 85-98; fetchone() returns one of the rows with the email
login(c, email_in, password_in) ==
    LET email == Lower(Strip(OrEmpty(email_in)))
        password == OrEmpty(password_in)
        rows == UsersByEmail(email)
    IN  /\ pc[c] = "idle"
        /\ \/ \* get_db() raises
              /\ MayFail
              /\ faults' = faults + 1
              /\ response' = Raise(c, "login", "DatabaseError")
              /\ UNCHANGED <<session, open_conns>>
           \/ \* db.cursor() raises, outside the try
              /\ MayFail
              /\ faults' = faults + 1
              /\ open_conns' = open_conns + 1
              /\ response' = Raise(c, "login", "DatabaseError")
              /\ UNCHANGED session
           \/ \* cur.execute raises
              /\ MayFail
              /\ faults' = faults + 1
              /\ response' = Raise(c, "login", "DatabaseError")
              /\ UNCHANGED <<session, open_conns>>
           \/ /\ \/ rows = {}
                 \/ \E i \in rows : ~check_password_hash(users[i].password_hash, password)
              /\ response' = Respond(c, "login", 401)
              /\ UNCHANGED <<session, open_conns, faults>>
           \/ /\ \E i \in rows :
                    /\ check_password_hash(users[i].password_hash, password)
                    /\ session' = [session EXCEPT ![c] = i]
              /\ response' = Respond(c, "login", 200)
              /\ UNCHANGED <<open_conns, faults>>
        /\ UNCHANGED <<upload_vars, users, restaurants, order_vars, request_vars, listing>>

\* lines 102-104
logout(c) ==
    /\ pc[c] = "idle"
    /\ session' = [session EXCEPT ![c] = 0]
    /\ response' = Respond(c, "logout", 200)
    /\ UNCHANGED <<upload_vars, users, restaurants, order_vars, request_vars,
                   open_conns, faults, listing>>

\* ------------------------------------------------------------- profile
\* lines 29-38
row_to_user(uid) ==
    IF uid \in 1..Len(users)
    THEN [id |-> uid, name |-> users[uid].name, email |-> users[uid].email,
          role |-> users[uid].role, photo_url |-> users[uid].photo_url]
    ELSE None

\* if name: / if password: / if photo_url:
Truthy(x) == x # None /\ x # <<>>

\* lines 146-151: each UPDATE ... WHERE id=uid that the form asks for
profile_update(table, uid, name, password, photo_url) ==
    [i \in 1..Len(table) |->
        IF i # uid THEN table[i]
        ELSE [name |-> IF Truthy(name) THEN name ELSE table[i].name,
              email |-> table[i].email,
              password_hash |-> IF Truthy(password)
                                THEN generate_password_hash(password)
                                ELSE table[i].password_hash,
              role |-> table[i].role,
              photo_url |-> IF Truthy(photo_url) THEN photo_url ELSE table[i].photo_url]]

\* lines 123-133: GET
profile_get(c) ==
    /\ pc[c] = "idle"
    /\ \/ /\ session[c] = 0
          /\ response' = Respond(c, "profile", 401)
          /\ UNCHANGED <<open_conns, faults>>
       \/ /\ session[c] # 0
          /\ \/ /\ MayFail
                /\ faults' = faults + 1
                /\ response' = Raise(c, "profile", "DatabaseError")
                /\ UNCHANGED open_conns
             \/ \* db.cursor() raises, outside the try
                /\ MayFail
                /\ faults' = faults + 1
                /\ open_conns' = open_conns + 1
                /\ response' = Raise(c, "profile", "DatabaseError")
             \/ /\ response' = Reply(c, "profile", 200, row_to_user(session[c]))
                /\ UNCHANGED <<open_conns, faults>>
    /\ UNCHANGED <<upload_vars, users, session, restaurants, order_vars, request_vars,
                   listing>>

\* lines 123-125 and 135-155: PUT
profile_put(c, name, password, photo) ==
    /\ pc[c] = "idle"
    /\ \/ /\ session[c] = 0
          /\ response' = Respond(c, "profile", 401)
          /\ UNCHANGED <<files, uploads, users, open_conns, faults>>
       \/ /\ session[c] # 0
          /\ CanUpload(photo)
          /\ files' = photo_save(files, photo, clock)
          /\ uploads' = Uploaded(photo)
          /\ \/ \* get_db() raises
                /\ MayFail
                /\ faults' = faults + 1
                /\ response' = Raise(c, "profile", "DatabaseError")
                /\ UNCHANGED <<users, open_conns>>
             \/ \* db.cursor() raises, outside the try
                /\ MayFail
                /\ faults' = faults + 1
                /\ open_conns' = open_conns + 1
                /\ response' = Raise(c, "profile", "DatabaseError")
                /\ UNCHANGED users
             \/ \* an UPDATE or the commit raises: nothing is committed
                /\ MayFail
                /\ faults' = faults + 1
                /\ response' = Raise(c, "profile", "DatabaseError")
                /\ UNCHANGED <<users, open_conns>>
             \/ /\ users' = profile_update(users, session[c], name, password,
                                           photo_url_of(photo, clock))
                /\ response' = Reply(c, "profile", 200, photo_url_of(photo, clock))
                /\ UNCHANGED <<open_conns, faults>>
    /\ UNCHANGED <<clock, session, restaurants, order_vars, request_vars, listing>>

\* ------------------------------------------------------------- owner_add_restaurant
Yen == <<"Y">>

\* (data.get('price_level') or default).strip()
OrDefault(x, d) == IF Truthy(x) THEN x ELSE d

\* the check of line 167 without the comparison of the role
owner_role_any(uid) == uid \in 1..Len(users)

\* lines 165-167: SELECT role FROM users WHERE id=uid, and the check on it
owner_role(uid) ==
    uid \in 1..Len(users) /\ users[uid].role = "owner"

\* the row of lines 178-181
NewRestaurant(uid, data) ==
    [owner_id |-> uid,
     name |-> Strip(OrDefault(data.name, <<>>)),
     area |-> Strip(OrDefault(data.area, <<>>)),
     cuisine |-> Strip(OrDefault(data.cuisine, <<>>)),
     price_level |-> Strip(OrDefault(data.price_level, Yen)),
     halal |-> data.halal,
     image_url |-> data.image_url]

\* lines 160-185
owner_add_restaurant(c, data) ==
    /\ pc[c] = "idle"
    /\ \/ /\ session[c] = 0
          /\ response' = Respond(c, "owner_add_restaurant", 401)
          /\ UNCHANGED <<restaurants, open_conns, faults>>
       \/ /\ session[c] # 0
          /\ \/ \* get_db() raises
                /\ MayFail
                /\ faults' = faults + 1
                /\ response' = Raise(c, "owner_add_restaurant", "DatabaseError")
                /\ UNCHANGED <<restaurants, open_conns>>
             \/ \* db.cursor() raises, outside the try
                /\ MayFail
                /\ faults' = faults + 1
                /\ open_conns' = open_conns + 1
                /\ response' = Raise(c, "owner_add_restaurant", "DatabaseError")
                /\ UNCHANGED restaurants
             \/ \* the SELECT, the INSERT or the commit raises
                /\ MayFail
                /\ faults' = faults + 1
                /\ response' = Raise(c, "owner_add_restaurant", "DatabaseError")
                /\ UNCHANGED <<restaurants, open_conns>>
             \/ /\ ~owner_role(session[c])
                /\ response' = Respond(c, "owner_add_restaurant", 403)
                /\ UNCHANGED <<restaurants, open_conns, faults>>
             \/ /\ owner_role(session[c])
                /\ NewRestaurant(session[c], data).name = <<>>
                /\ response' = Respond(c, "owner_add_restaurant", 400)
                /\ UNCHANGED <<restaurants, open_conns, faults>>
             \/ /\ owner_role(session[c])
                /\ NewRestaurant(session[c], data).name # <<>>
                /\ Len(restaurants) < MaxRestaurants
                /\ restaurants' = Append(restaurants, NewRestaurant(session[c], data))
                /\ response' = Reply(c, "owner_add_restaurant", 200, Len(restaurants) + 1)
                /\ UNCHANGED <<open_conns, faults>>
    /\ UNCHANGED <<upload_vars, users, session, order_vars, request_vars, listing>>

\* ------------------------------------------------------------- orders
\* a connection opened with autocommit=True: every statement commits at once
autocommit_on == TRUE

\* mysql.connector.connect(...) of get_db(): autocommit is not asked for, so a
\* statement takes effect for other connections only at db.commit()
autocommit == FALSE

Digit == [ch \in {"0", "1", "2", "3", "4", "5", "6", "7", "8", "9"} |->
            CASE ch = "0" -> 0 [] ch = "1" -> 1 [] ch = "2" -> 2 [] ch = "3" -> 3
              [] ch = "4" -> 4 [] ch = "5" -> 5 [] ch = "6" -> 6 [] ch = "7" -> 7
              [] ch = "8" -> 8 [] ch = "9" -> 9]

IsNumeral(s) == s # <<>> /\ \A k \in 1..Len(s) : s[k] \in DOMAIN Digit

RECURSIVE NumeralValue(_)
NumeralValue(s) ==
    IF s = <<>> THEN 0
    ELSE 10 * NumeralValue(SubSeq(s, 1, Len(s) - 1)) + Digit[s[Len(s)]]

\* a JSON quantity: absent, a number or a string
NoQuantity == [t |-> "none", n |-> 0, s |-> <<>>]

IntQuantity(n) == [t |-> "int", n |-> n, s |-> <<>>]

StrQuantity(s) == [t |-> "str", n |-> 0, s |-> s]

\* it.get('quantity') or 1: None, 0 and '' are falsy
QuantityOr1(q) ==
    IF q.t = "none" \/ (q.t = "int" /\ q.n = 0) \/ (q.t = "str" /\ q.s = <<>>)
    THEN IntQuantity(1)
    ELSE q

\* int(...) raises ValueError on a string that is no numeral
int_raises(q) == QuantityOr1(q).t = "str" /\ ~IsNumeral(QuantityOr1(q).s)

\* int(it.get('quantity') or 1), line 250
int_quantity(q) ==
    IF QuantityOr1(q).t = "str" THEN NumeralValue(QuantityOr1(q).s) ELSE QuantityOr1(q).n

\* a line of items: a JSON object, or something that has no .get
Line(mid, q) == [dict |-> TRUE, menu_item_id |-> mid, quantity |-> q]

Malformed == [dict |-> FALSE, menu_item_id |-> 0, quantity |-> NoQuantity]

\* data.get('items') or []
items_of(data) == IF data.has_items THEN data.items ELSE <<>>

\* the handler without the check of line 244
no_items_unchecked(items) == FALSE

\* line 244
no_items(items) == items = <<>>

\* an INSERT that drops the quantity of the line
order_item_row_unit(order_id, mid, qty, price) ==
    [order_id |-> order_id, menu_item_id |-> mid, quantity |-> 1, price |-> price]

\* the row of lines 254-257: the price is row[0] of the lookup of line 251
order_item_row(order_id, mid, qty, price) ==
    [order_id |-> order_id, menu_item_id |-> mid, quantity |-> qty, price |-> price]

\* the row of line 247
order_row(order_id, uid, now) ==
    [id |-> order_id, user_id |-> uid, status |-> "pending", created_at |-> now]

RECURSIVE by_id_desc(_)
\* ORDER BY id DESC
by_id_desc(rows) ==
    IF rows = {} THEN <<>>
    ELSE LET top == CHOOSE r \in rows : \A o \in rows : o.id <= r.id
         IN  <<top>> \o by_id_desc(rows \ {top})

\* line 239: SELECT id,status,created_at FROM orders WHERE user_id=%s ORDER BY id DESC
orders_of(uid) ==
    LET mine == {orders[k] : k \in {j \in 1..Len(orders) : orders[j].user_id = uid}}
        sorted == by_id_desc(mine)
    IN  [k \in 1..Len(sorted) |->
            [id |-> sorted[k].id, status |-> sorted[k].status,
             created_at |-> sorted[k].created_at]]

\* the request ends with an exception: the finally closes the connection, and what
\* the connection had not committed is rolled back
orders_abort(c, exc) ==
    /\ response' = Raise(c, "orders", exc)
    /\ pc' = [pc EXCEPT ![c] = "idle"]
    /\ local' = [local EXCEPT ![c] = NoLocal]
    /\ open_conns' = open_conns - 1

\* lines 233-248: up to the INSERT of the order row
orders_begin(c, method, data) ==
    /\ pc[c] = "idle"
    /\ \/ /\ session[c] = 0
          /\ response' = Respond(c, "orders", 401)
          /\ UNCHANGED <<orders, next_order_id, pc, local, open_conns, faults>>
       \/ /\ session[c] # 0
          /\ \/ \* get_db() raises
                /\ MayFail
                /\ faults' = faults + 1
                /\ response' = Raise(c, "orders", "DatabaseError")
                /\ UNCHANGED <<orders, next_order_id, pc, local, open_conns>>
             \/ \* db.cursor() raises, outside the try
                /\ MayFail
                /\ faults' = faults + 1
                /\ open_conns' = open_conns + 1
                /\ response' = Raise(c, "orders", "DatabaseError")
                /\ UNCHANGED <<orders, next_order_id, pc, local>>
             \/ /\ method = "GET"
                /\ \/ /\ MayFail
                      /\ faults' = faults + 1
                      /\ response' = Raise(c, "orders", "DatabaseError")
                   \/ /\ response' = Reply(c, "orders_get", 200, orders_of(session[c]))
                      /\ UNCHANGED faults
                /\ UNCHANGED <<orders, next_order_id, pc, local, open_conns>>
             \/ /\ method = "POST"
                /\ no_items(items_of(data))
                /\ response' = Respond(c, "orders", 400)
                /\ UNCHANGED <<orders, next_order_id, pc, local, open_conns, faults>>
             \/ \* db.cursor() or the INSERT of line 247 raises, inside the try
                /\ method = "POST"
                /\ ~no_items(items_of(data))
                /\ MayFail
                /\ faults' = faults + 1
                /\ response' = Raise(c, "orders", "DatabaseError")
                /\ UNCHANGED <<orders, next_order_id, pc, local, open_conns>>
             \/ /\ method = "POST"
                /\ ~no_items(items_of(data))
                /\ next_order_id <= MaxOrders
                /\ next_order_id' = next_order_id + 1
                /\ orders' = IF autocommit
                             THEN Append(orders, order_row(next_order_id, session[c], clock))
                             ELSE orders
                /\ open_conns' = open_conns + 1
                /\ pc' = [pc EXCEPT ![c] = "orders_items"]
                /\ local' = [local EXCEPT ![c] =
                       [k |-> "orders", items |-> items_of(data), i |-> 1,
                        order_id |-> next_order_id,
                        tx_orders |-> IF autocommit THEN <<>>
                                      ELSE <<order_row(next_order_id, session[c], clock)>>,
                        tx_items |-> <<>>]]
                /\ UNCHANGED <<faults, response>>
    /\ UNCHANGED <<upload_vars, users, session, restaurants, menu_items, order_items,
                   requested, listing>>

\* lines 249-257: one turn of the loop
orders_item(c) ==
    /\ pc[c] = "orders_items"
    /\ local[c].i <= Len(local[c].items)
    /\ LET it == local[c].items[local[c].i]
           mid == it.menu_item_id
           qty == int_quantity(it.quantity)
           row == order_item_row(local[c].order_id, mid, qty, menu_items[mid])
       IN  \/ \* it.get raises AttributeError
              /\ ~it.dict
              /\ orders_abort(c, "AttributeError")
              /\ UNCHANGED <<order_items, faults>>
           \/ \* int() raises ValueError
              /\ it.dict
              /\ int_raises(it.quantity)
              /\ orders_abort(c, "ValueError")
              /\ UNCHANGED <<order_items, faults>>
           \/ \* the SELECT of line 251 or the INSERT of line 254 raises
              /\ it.dict
              /\ ~int_raises(it.quantity)
              /\ MayFail
              /\ faults' = faults + 1
              /\ orders_abort(c, "DatabaseError")
              /\ UNCHANGED order_items
           \/ \* if not row: continue
              /\ it.dict
              /\ ~int_raises(it.quantity)
              /\ mid \notin DOMAIN menu_items
              /\ local' = [local EXCEPT ![c].i = @ + 1]
              /\ UNCHANGED <<order_items, pc, open_conns, faults, response>>
           \/ /\ it.dict
              /\ ~int_raises(it.quantity)
              /\ mid \in DOMAIN menu_items
              /\ order_items' = IF autocommit THEN Append(order_items, row) ELSE order_items
              /\ local' = [local EXCEPT ![c].i = @ + 1,
                                        ![c].tx_items = IF autocommit THEN @
                                                        ELSE Append(@, row)]
              /\ UNCHANGED <<pc, open_conns, faults, response>>
    /\ UNCHANGED <<upload_vars, users, session, restaurants, menu_items, orders,
                   next_order_id, requested, listing>>

\* lines 258-262: db.commit() and the response
orders_commit(c) ==
    /\ pc[c] = "orders_items"
    /\ local[c].i > Len(local[c].items)
    /\ \/ \* db.commit() raises
          /\ MayFail
          /\ faults' = faults + 1
          /\ orders_abort(c, "DatabaseError")
          /\ UNCHANGED <<orders, order_items, requested>>
       \/ /\ orders' = orders \o local[c].tx_orders
          /\ order_items' = order_items \o local[c].tx_items
          /\ requested' = [o \in DOMAIN requested \cup {local[c].order_id} |->
                              IF o = local[c].order_id THEN local[c].items
                              ELSE requested[o]]
          /\ response' = Reply(c, "orders", 200, local[c].order_id)
          /\ pc' = [pc EXCEPT ![c] = "idle"]
          /\ local' = [local EXCEPT ![c] = NoLocal]
          /\ open_conns' = open_conns - 1
          /\ UNCHANGED faults
    /\ UNCHANGED <<upload_vars, users, session, restaurants, menu_items,
                   next_order_id, listing>>

orders_step(c) ==
    \/ orders_item(c)
    \/ orders_commit(c)

\* ------------------------------------------------------------- list_restaurants
AllAreas == <<"All Areas">>

AllCuisines == <<"All Cuisines">>

AllPrices == <<"All Prices">>

Halal == <<"Halal">>

RECURSIVE Like(_, _)
\* s LIKE pattern: % stands for any run of characters, _ for any one character
Like(pattern, s) ==
    IF pattern = <<>> THEN s = <<>>
    ELSE IF Head(pattern) = "%"
         THEN Like(Tail(pattern), s) \/ (s # <<>> /\ Like(pattern, Tail(s)))
         ELSE /\ s # <<>>
              /\ (Head(pattern) = "_" \/ Head(pattern) = Head(s))
              /\ Like(Tail(pattern), Tail(s))

\* lines 199-211: the clauses the arguments add, as a test on a row
where_q(q, row) == Truthy(q) => Like(<<"%">> \o q \o <<"%">>, Lower(row.name))

where_area(area, row) == (Truthy(area) /\ area # AllAreas) => row.area = area

where_cuisine(cuisine, row) ==
    (Truthy(cuisine) /\ cuisine # AllCuisines) =>
        IF cuisine = Halal THEN row.halal = TRUE ELSE row.cuisine = cuisine

where_price(price, row) == (Truthy(price) /\ price # AllPrices) => row.price_level = price

\* line 213: " AND ".join(clauses)
where_all(q, area, cuisine, price, row) ==
    /\ where_q(q, row)
    /\ where_area(area, row)
    /\ where_cuisine(cuisine, row)
    /\ where_price(price, row)

CharRank(ch) ==
    CASE ch = " " -> 0
      [] ch = "%" -> 1
      [] ch = "_" -> 2
      [] ch \in {"a", "A"} -> 3
      [] ch \in {"b", "B"} -> 4
      [] OTHER -> 5

RECURSIVE NameBefore(_, _)
\* x sorts strictly before y; names that differ only in case sort either way,
\* as the collation of the column decides
NameBefore(x, y) ==
    IF y = <<>> THEN FALSE
    ELSE IF x = <<>> THEN TRUE
    ELSE IF CharRank(Head(x)) # CharRank(Head(y))
         THEN CharRank(Head(x)) < CharRank(Head(y))
         ELSE NameBefore(Tail(x), Tail(y))

\* ORDER BY name: the orders of the selected ids that the sort may produce
order_by_name(ids) ==
    {p \in [1..Cardinality(ids) -> ids] :
        /\ \A i, j \in 1..Cardinality(ids) : i # j => p[i] # p[j]
        /\ \A i, j \in 1..Cardinality(ids) :
              i < j => ~NameBefore(restaurants[p[j]].name, restaurants[p[i]].name)}

NoListing ==
    [made |-> FALSE, q |-> None, area |-> None, cuisine |-> None, price |-> None,
     restaurants |-> <<>>]

\* the dictionary cursor's row of line 196
listed_row(i) ==
    [id |-> i, name |-> restaurants[i].name, area |-> restaurants[i].area,
     cuisine |-> restaurants[i].cuisine, price_level |-> restaurants[i].price_level,
     halal |-> restaurants[i].halal, image_url |-> restaurants[i].image_url]

\* lines 190-218
list_restaurants(c, q_in, area, cuisine, price) ==
    LET q == Lower(Strip(OrEmpty(q_in)))
        ids == {i \in 1..Len(restaurants) :
                   where_all(q, area, cuisine, price, restaurants[i])}
    IN  /\ pc[c] = "idle"
        /\ \/ \* get_db() raises
              /\ MayFail
              /\ faults' = faults + 1
              /\ response' = Raise(c, "list_restaurants", "DatabaseError")
              /\ UNCHANGED <<open_conns, listing>>
           \/ \* db.cursor() raises, outside the try
              /\ MayFail
              /\ faults' = faults + 1
              /\ open_conns' = open_conns + 1
              /\ response' = Raise(c, "list_restaurants", "DatabaseError")
              /\ UNCHANGED listing
           \/ \* cur.execute raises
              /\ MayFail
              /\ faults' = faults + 1
              /\ response' = Raise(c, "list_restaurants", "DatabaseError")
              /\ UNCHANGED <<open_conns, listing>>
           \/ /\ \E p \in order_by_name(ids) :
                    listing' = [made |-> TRUE, q |-> q_in, area |-> area, cuisine |-> cuisine,
                                price |-> price,
                                restaurants |-> [k \in 1..Len(p) |-> listed_row(p[k])]]
              /\ response' = Respond(c, "list_restaurants", 200)
              /\ UNCHANGED <<open_conns, faults>>
        /\ UNCHANGED <<upload_vars, users, session, restaurants, order_vars,
                       request_vars>>

\* ------------------------------------------------------------- specifications
EmptyFiles == [x \in {} |-> 0]

Init ==
    /\ clock = 0
    /\ files = EmptyFiles
    /\ uploads = 0
    /\ users = <<>>
    /\ session = [c \in Clients |-> 0]
    /\ restaurants = <<>>
    /\ menu_items = [x \in {} |-> 0]
    /\ orders = <<>>
    /\ order_items = <<>>
    /\ next_order_id = 1
    /\ requested = [x \in {} |-> <<>>]
    /\ pc = [c \in Clients |-> "idle"]
    /\ local = [c \in Clients |-> NoLocal]
    /\ open_conns = 0
    /\ faults = 0
    /\ response = NoResponse
    /\ listing = NoListing

\* registration, with addresses that differ only in case and blanks
RegisterNames == {<<>>, <<" ", "n">>}

RegisterEmails == {<<>>, <<"a">>, <<"A", " ">>}

RegisterPasswords == {<<>>, <<"p">>}

RegisterRoles == {"customer", "admin"}

LoginPasswords == {None, <<"p">>}

ProfileNames == {None, <<"m">>}

ProfilePasswords == {None, <<>>, <<"q">>}

NextRegister ==
    \E c \in Clients :
        \/ \E n \in RegisterNames, e \in RegisterEmails, p \in RegisterPasswords,
              r \in RegisterRoles :
              register_begin(c, n, e, p, r, NoFile)
        \/ register_step(c)
        \/ \E e \in RegisterEmails, p \in LoginPasswords : login(c, e, p)
        \/ logout(c)
        \/ profile_get(c)
        \/ \E n \in ProfileNames, p \in ProfilePasswords : profile_put(c, n, p, NoFile)

SpecRegister == Init /\ [][NextRegister]_vars

\* owners and customers, and the owner's restaurants
OwnerEmails == {<<"a">>, <<"b">>}

\* a registers as a customer, b as an owner
OwnerRole(e) == IF e = <<"a">> THEN "customer" ELSE "owner"

RestaurantData ==
    {[name |-> n, area |-> <<"S">>, cuisine |-> <<"J">>, price_level |-> None,
      halal |-> FALSE, image_url |-> None] : n \in {None, <<"r", " ">>}}

NextOwner ==
    \E c \in Clients :
        \/ \E e \in OwnerEmails :
              register_begin(c, <<"n">>, e, <<"p">>, OwnerRole(e), NoFile)
        \/ register_step(c)
        \/ \E e \in OwnerEmails : login(c, e, <<"p">>)
        \/ logout(c)
        \/ \E d \in RestaurantData : owner_add_restaurant(c, d)

SpecOwner == Init /\ [][NextOwner]_vars

\* photo uploads: registration and profile updates that carry a file
UploadEmails == {<<"a">>, <<"b">>}

NextUploads ==
    \/ Tick
    \/ \E c \in Clients :
        \/ \E e \in UploadEmails, ph \in Photos :
              register_begin(c, <<"n">>, e, <<"p">>, "customer", ph)
        \/ register_step(c)
        \/ \E ph \in Photos : profile_put(c, None, None, ph)

SpecUploads == Init /\ [][NextUploads]_vars

\* orders: one registered customer, signed in on one browser or on both
OrderUser ==
    [name |-> <<"n">>, email |-> <<"a">>, password_hash |-> generate_password_hash(<<"p">>),
     role |-> "customer", photo_url |-> None]

Menu == [m \in {1, 2} |-> IF m = 1 THEN 5 ELSE 7]

InitOrders ==
    /\ clock = 0
    /\ files = EmptyFiles
    /\ uploads = 0
    /\ users = <<OrderUser>>
    /\ session \in {[c \in Clients |-> 1], [c \in Clients |-> IF c = "c1" THEN 1 ELSE 0]}
    /\ restaurants = <<>>
    /\ menu_items = Menu
    /\ orders = <<>>
    /\ order_items = <<>>
    /\ next_order_id = 1
    /\ requested = [x \in {} |-> <<>>]
    /\ pc = [c \in Clients |-> "idle"]
    /\ local = [c \in Clients |-> NoLocal]
    /\ open_conns = 0
    /\ faults = 0
    /\ response = NoResponse
    /\ listing = NoListing

Lines ==
    {Line(1, IntQuantity(2)), Line(1, IntQuantity(0)), Line(9, NoQuantity),
     Line(2, StrQuantity(<<"1", "2">>)), Line(1, StrQuantity(<<"x">>)),
     Line(1, IntQuantity(-1)), Malformed}

RECURSIVE SeqsUpTo(_, _)
\* the sequences over S of length at most n
SeqsUpTo(S, n) ==
    IF n = 0 THEN {<<>>}
    ELSE LET shorter == SeqsUpTo(S, n - 1)
         IN  shorter \cup {Append(s, x) : s \in shorter, x \in S}

NoData == [has_items |-> FALSE, items |-> <<>>]

OrderData ==
    {NoData} \cup {[has_items |-> TRUE, items |-> s] : s \in SeqsUpTo(Lines, MaxLines)}

NextOrders ==
    \E c \in Clients :
        \/ orders_begin(c, "GET", NoData)
        \/ \E d \in OrderData : orders_begin(c, "POST", d)
        \/ orders_step(c)

SpecOrders == InitOrders /\ [][NextOrders]_vars

\* search: a table of restaurants of every kind, and every combination of arguments
SearchRow(name, area, cuisine, price, halal) ==
    [owner_id |-> 1, name |-> name, area |-> area, cuisine |-> cuisine,
     price_level |-> price, halal |-> halal, image_url |-> None]

SearchRows ==
    {SearchRow(<<"a", "b">>, <<"S">>, <<"J">>, <<"Y">>, TRUE),
     SearchRow(<<"A">>, <<"S">>, Halal, <<"Y">>, FALSE),
     SearchRow(<<"b">>, <<"K">>, <<"J">>, <<"Y", "Y">>, FALSE),
     SearchRow(<<"a", "_">>, <<"K">>, <<"I">>, <<"Y">>, TRUE)}

SearchOwner ==
    [name |-> <<"n">>, email |-> <<"b">>, password_hash |-> generate_password_hash(<<"p">>),
     role |-> "owner", photo_url |-> None]

SearchQ == {None, <<" ">>, <<"A">>, <<"b", " ">>, <<"_">>, <<"%">>}

SearchAreas == {None, <<>>, AllAreas, <<"S">>}

SearchCuisines == {None, AllCuisines, Halal, <<"J">>}

SearchPrices == {None, AllPrices, <<"Y">>}

InitSearch ==
    /\ clock = 0
    /\ files = EmptyFiles
    /\ uploads = 0
    /\ users = <<SearchOwner>>
    /\ session = [c \in Clients |-> 0]
    /\ restaurants \in SeqsUpTo(SearchRows, MaxRows)
    /\ menu_items = Menu
    /\ orders = <<>>
    /\ order_items = <<>>
    /\ next_order_id = 1
    /\ requested = [x \in {} |-> <<>>]
    /\ pc = [c \in Clients |-> "idle"]
    /\ local = [c \in Clients |-> NoLocal]
    /\ open_conns = 0
    /\ faults = 0
    /\ response = NoResponse
    /\ listing = NoListing

\* one search is made of each table, with any arguments
NextSearch ==
    \E c \in Clients :
        \E q \in SearchQ, a \in SearchAreas, cu \in SearchCuisines, pr \in SearchPrices :
            ~listing.made /\ list_restaurants(c, q, a, cu, pr)

SpecSearch == InitSearch /\ [][NextSearch]_vars

\* ------------------------------------------------------------- properties
\* the order_items rows of an order, in table order
ItemsOfOrder(o) == SelectSeq(order_items, LAMBDA r : r.order_id = o)

\* a requested line survives when it is an object whose menu item exists
Survives(line) == line.dict /\ line.menu_item_id \in DOMAIN menu_items

SurvivingLines(items) == SelectSeq(items, Survives)

OrderIds == {orders[j].id : j \in 1..Len(orders)}

AllIdle == \A c \in Clients : pc[c] = "idle"

\* C1: createOrder is all-or-nothing.  In every state of the store, also while
\* other requests run and after a request failed behind its order row, an
\* order_items row belongs to a committed order, and a committed order has the
\* rows of all the surviving lines of its request, in order.
C1_AllOrNothing ==
    /\ \A k \in 1..Len(order_items) : order_items[k].order_id \in OrderIds
    /\ \A o \in OrderIds :
          /\ o \in DOMAIN requested
          /\ LET rows == ItemsOfOrder(o)
                 lines == SurvivingLines(requested[o])
             IN  /\ Len(rows) = Len(lines)
                 /\ \A k \in 1..Len(rows) :
                       rows[k].menu_item_id = lines[k].menu_item_id

\* a request failed on a line, after its order row was inserted, and the store
\* holds nothing of it
C1_Witness ==
    /\ response.handler = "orders"
    /\ response.error \in {"ValueError", "AttributeError"}
    /\ AllIdle
    /\ next_order_id = 2
    /\ orders = <<>>
    /\ order_items = <<>>

\* C2: email uniqueness.  No two rows of users have the same lower-cased email,
\* and a register whose email is taken is answered 409, not with an error of the
\* storage.
C2_EmailUnique ==
    /\ \A i, j \in 1..Len(users) :
          i # j => Lower(users[i].email) # Lower(users[j].email)
    /\ ~(response.handler = "register" /\ response.error = "IntegrityError")

EmptyBodies == {NoData, [has_items |-> TRUE, items |-> <<>>]}

\* C3: a POST /api/orders of a signed-in user with no items (missing or empty) is
\* answered 400, or 500 when the storage itself failed, and leaves orders,
\* order_items and the order id counter as they were.
C3_EmptyItemsRejected ==
    [][\A c \in Clients, d \in EmptyBodies :
          (session[c] # 0 /\ orders_begin(c, "POST", d)) =>
              /\ response'.handler = "orders"
              /\ response'.status = 400 \/ response'.error = "DatabaseError"
              /\ orders' = orders
              /\ order_items' = order_items
              /\ next_order_id' = next_order_id
              /\ pc'[c] = "idle"]_vars

\* the 400 was sent to a signed-in user, and there is no order
C3_Witness ==
    /\ response.handler = "orders"
    /\ response.status = 400
    /\ session[response.to] # 0
    /\ orders = <<>>
    /\ next_order_id = 1

\* the quantity a line asks for, as a number
RequestedQuantity(q) ==
    CASE q.t = "int" -> q.n
      [] q.t = "str" -> NumeralValue(q.s)
      [] OTHER -> 1

\* the same, with a missing, zero or empty quantity read as 1
QuantityOrOne(q) ==
    IF q.t = "none" \/ (q.t = "int" /\ q.n = 0) \/ (q.t = "str" /\ q.s = <<>>)
    THEN 1
    ELSE RequestedQuantity(q)

RowOf(o, line, quantity) ==
    [order_id |-> o, menu_item_id |-> line.menu_item_id, quantity |-> quantity,
     price |-> menu_items[line.menu_item_id]]

\* one row per surviving line of the request of order o, with the quantity asked for
RowsAsRequested(o) ==
    LET lines == SurvivingLines(requested[o])
    IN  [k \in 1..Len(lines) |-> RowOf(o, lines[k], RequestedQuantity(lines[k].quantity))]

\* the same, with the quantity read as int(quantity or 1)
RowsCoerced(o) ==
    LET lines == SurvivingLines(requested[o])
    IN  [k \in 1..Len(lines) |-> RowOf(o, lines[k], QuantityOrOne(lines[k].quantity))]

\* a successful createOrder answers with the id of a committed order
OrderReturned ==
    (response.handler = "orders" /\ response.status = 200) =>
        response.body \in OrderIds /\ response.body \in DOMAIN requested

\* C4, as stated: the rows of a created order are one per requested line whose
\* menu item exists, each with that line's quantity and the menu item's price.
C4_RowsAsStated ==
    /\ OrderReturned
    /\ \A o \in DOMAIN requested : ItemsOfOrder(o) = RowsAsRequested(o)

\* C4, amended: the same, with the quantity int(quantity or 1): a missing, zero or
\* empty quantity is stored as 1.
C4_RowsCoerced ==
    /\ OrderReturned
    /\ \A o \in DOMAIN requested : ItemsOfOrder(o) = RowsCoerced(o)

\* the order of a valid line with quantity 2 and a line with an unknown menu item
\* was created with one row, and its id returned
C4_Witness ==
    /\ response.handler = "orders"
    /\ response.status = 200
    /\ response.body \in DOMAIN requested
    /\ requested[response.body] = <<Line(1, IntQuantity(2)), Line(9, NoQuantity)>>
    /\ Len(ItemsOfOrder(response.body)) = 1

\* C5: every stored quantity is a positive integer, and no order fails on a bad
\* quantity.
C5_QuantitiesPositive ==
    /\ \A k \in 1..Len(order_items) : order_items[k].quantity >= 1
    /\ ~(response.handler = "orders" /\ response.error = "ValueError")

\* C6: every committed order has at least one order_items row.
C6_OrderHasItems ==
    \A o \in OrderIds : \E k \in 1..Len(order_items) : order_items[k].order_id = o

RECURSIVE IsPrefix(_, _)
IsPrefix(x, s) ==
    x = <<>> \/ (s # <<>> /\ Head(x) = Head(s) /\ IsPrefix(Tail(x), Tail(s)))

RECURSIVE Contains(_, _)
\* x is a substring of s
Contains(s, x) == IsPrefix(x, s) \/ (s # <<>> /\ Contains(Tail(s), x))

Present(arg, sentinel) == arg # None /\ arg # <<>> /\ arg # sentinel

\* the filters of the search as they are described: a case-insensitive substring
\* of the name, exact area, cuisine and price, "Halal" standing for the flag
Satisfies(row, q, area, cuisine, price) ==
    /\ Present(q, None) /\ Strip(q) # <<>> => Contains(Lower(row.name), Lower(Strip(q)))
    /\ Present(area, AllAreas) => row.area = area
    /\ Present(cuisine, AllCuisines) =>
          IF cuisine = Halal THEN row.halal ELSE row.cuisine = cuisine
    /\ Present(price, AllPrices) => row.price_level = price

ListedIds == {listing.restaurants[k].id : k \in 1..Len(listing.restaurants)}

\* C7: list_restaurants returns exactly the restaurants that satisfy all the
\* filters that are present.
C7_ExactlyTheMatches ==
    listing.made =>
        ListedIds = {i \in 1..Len(restaurants) :
                        Satisfies(restaurants[i], listing.q, listing.area,
                                  listing.cuisine, listing.price)}

HasWildcard(q) == q # None /\ \E k \in 1..Len(q) : q[k] \in {"%", "_"}

\* C7 for a query without the characters % and _ (not a claim of its own: it shows
\* where the search and its description part)
C7_WithoutWildcards == ~HasWildcard(listing.q) => C7_ExactlyTheMatches

IsOwner(uid) == uid \in 1..Len(users) /\ users[uid].role = "owner"

\* C8: only a signed-in owner adds a restaurant.  A caller without a session is
\* answered 401 and one who is no owner 403 (unless the storage itself failed),
\* the table changes only by the row a signed-in owner adds for himself, and so
\* every restaurant's owner_id is a user with role owner.
C8_OwnerOnly ==
    /\ [](/\ response.handler = "owner_add_restaurant" =>
                /\ session[response.to] = 0 => response.status = 401
                /\ (session[response.to] # 0 /\ ~IsOwner(session[response.to])) =>
                      response.status = 403 \/ response.error = "DatabaseError"
          /\ \A k \in 1..Len(restaurants) : IsOwner(restaurants[k].owner_id))
    /\ [][restaurants' # restaurants =>
            /\ response'.handler = "owner_add_restaurant"
            /\ response'.status = 200
            /\ IsOwner(session[response'.to])
            /\ Len(restaurants') = Len(restaurants) + 1
            /\ SubSeq(restaurants', 1, Len(restaurants)) = restaurants
            /\ restaurants'[Len(restaurants')].owner_id = session[response'.to]]_vars

\* an owner has added a restaurant, and a signed-in customer was answered 403
C8_Witness ==
    /\ response.handler = "owner_add_restaurant"
    /\ response.status = 403
    /\ session[response.to] # 0
    /\ restaurants # <<>>

\* C9: two uploads are never stored under the same name: no stored file was
\* written twice, and no two users refer to the same stored file.
C9_DistinctStoredNames ==
    /\ \A n \in DOMAIN files : files[n] <= 1
    /\ \A i, j \in 1..Len(users) :
          (i # j /\ users[i].photo_url # None) =>
              users[i].photo_url # users[j].photo_url

\* C10: the connections that are open are those of the requests that are running:
\* no request ends with its connection open.
C10_ConnectionsReleased ==
    open_conns = Cardinality({c \in Clients : pc[c] # "idle"})

====
